---- MODULE Spec2Model ----
(***************************************************************************)
(* The role store of kube2iam (store/store.go): three maps behind one      *)
(* sync.RWMutex, mutated by pod and namespace event handlers and read by   *)
(* the credential-serving handlers.  Every method is modelled statement by *)
(* statement for each goroutine, so that the accesses the code makes with  *)
(* and without the mutex interleave as they can in the program.            *)
(*                                                                         *)
(* A []*regexp.Regexp is a Go slice: a header (pointer, length) onto a     *)
(* backing array that other headers may share.  The model keeps the        *)
(* backing arrays in `heap` and the headers in the map and in the locals,  *)
(* because append() and the in-place removal write to the shared array.    *)
(***************************************************************************)
EXTENDS Integers, Sequences, FiniteSets, TLC

\* ---------------------------------------------------------------- bounds
\* Longest pattern slice a namespace may hold before AddRoleToNamespace is
\* no longer called for it.
MaxLen == 3

\* ---------------------------------------------------------------- domains
Tid == {1, 2, 3}
IPs == {"ip1", "ip2"}
Namespaces == {"ns1", "ns2"}
NsOrder == <<"ns1", "ns2">>
\* Role ARNs the pod handler stores for an IP.
PodRoles == {"arn:a", "arn:b"}
\* Roles a request may ask for; "d" is a role that was not put in ARN form.
AskRoles == {"arn:a", "arn:b", "arn:d", "d"}
\* The values of the --default-role flag.
DefaultRoles == {"", "d", "arn:d"}
\* Annotation values of a namespace: raw role regexps.
RawPatterns == {"a", "arn:a", ".*", "("}

\* ------------------------------------------------- iam.Client.RoleARN
\* A name that already carries the ARN prefix is returned as it is, any
\* other name is prefixed with the base ARN.
HasARNPrefix(s) == s \in {"arn:", "arn:a", "arn:b", "arn:d", "arn:.*", "arn:("}

RoleARN(s) ==
    IF HasARNPrefix(s) THEN s
    ELSE CASE s = "" -> "arn:"
           [] s = "a" -> "arn:a"
           [] s = "b" -> "arn:b"
           [] s = "d" -> "arn:d"
           [] s = ".*" -> "arn:.*"
           [] s = "(" -> "arn:("

\* ------------------------------------------------------ package regexp
\* regexp.Compile: "arn:(" has an unclosed group, the others compile.
Compile(src) == src # "arn:("

\* (*Regexp).String() is the source text the regexp was compiled from, so a
\* compiled regexp is held as that text.
\* (*Regexp).MatchString is an unanchored search for the pattern in s.
MatchString(src, s) ==
    CASE src = "arn:a" -> s = "arn:a"
      [] src = "arn:b" -> s = "arn:b"
      [] src = "arn:.*" -> s \in {"arn:", "arn:a", "arn:b", "arn:d"}
      [] OTHER -> FALSE

\* ---------------------------------------------------------------- state
VARIABLES
    defaultRole,              \* Store.defaultRole
    namespaceRestriction,     \* Store.namespaceRestriction
    mutex,                    \* Store.mutex: [w: writer or 0, r: readers]
    rolesByIP,                \* Store.rolesByIP
    namespaceByIP,            \* Store.namespaceByIP
    rolesRegexpByNamespace,   \* Store.rolesRegexpByNamespace: slice headers
    heap,                     \* backing arrays of the slices
    pc,                       \* where each goroutine is
    frame,                    \* arguments and locals of each call, and the
                              \* result of its last call that returns one
    fatal,                    \* the runtime has aborted the process
    recorded,                 \* per IP, the role of the last returned
                              \* AddRoleToIP not followed by a DeleteIP
    roleEvent,                \* per IP, the namespace carried by the pod
                              \* event that stored the current role
    granted                   \* per namespace, the regexps the returned
                              \* calls have added and not removed, taking
                              \* the calls in the order they returned

vars == <<defaultRole, namespaceRestriction, mutex, rolesByIP, namespaceByIP,
          rolesRegexpByNamespace, heap, pc, frame, fatal, recorded, roleEvent,
          granted>>

config == <<defaultRole, namespaceRestriction>>
history == <<recorded, roleEvent, granted>>

\* ---------------------------------------------------------------- slices
ArrIds == 1 .. (Cardinality(Namespaces) + Cardinality(Tid) + 1)

NilSlice == [arr |-> 0, len |-> 0]

Cap(h, s) == IF s.arr = 0 THEN 0 ELSE Len(h[s.arr])

\* s[i], 1-based.
Elem(h, s, i) == h[s.arr][i]

\* The regexps of a slice, in order.
Items(h, s) == [k \in 1 .. s.len |-> h[s.arr][k]]

\* runtime.growslice for one more pointer: 0 -> 1 -> 2 -> 4 -> 8.
GrowCap(c) == IF c = 0 THEN 1 ELSE 2 * c

FreeId(h, live) == CHOOSE id \in ArrIds : id \notin live /\ \A j \in ArrIds : (j \notin live) => id <= j

\* append(s, x): in place when the array has room, else into a grown copy.
\* Yields the new header and the heap; `live` are the arrays still in use.
SliceAppend(h, s, x, live) ==
    IF s.len < Cap(h, s)
    THEN [s |-> [s EXCEPT !.len = @ + 1],
          h |-> [h EXCEPT ![s.arr] = [@ EXCEPT ![s.len + 1] = x]]]
    ELSE LET id == FreeId(h, live)
             c == GrowCap(Cap(h, s))
         IN [s |-> [arr |-> id, len |-> s.len + 1],
             h |-> [h EXCEPT ![id] =
                        [k \in 1 .. c |->
                            IF k <= s.len THEN Elem(h, s, k)
                            ELSE IF k = s.len + 1 THEN x ELSE ""]]]

\* The slice cut by one at its end, nothing moved.
SliceRemove_Last(h, s, i) == [s |-> [s EXCEPT !.len = @ - 1], h |-> h]

\* append(s[:i], s[i+1:]...) for 1-based i: the tail moves down one place in
\* the same array, whose last cell keeps its old content.
SliceRemove(h, s, i) ==
    [s |-> [s EXCEPT !.len = @ - 1],
     h |-> [h EXCEPT ![s.arr] =
                [k \in 1 .. Len(@) |->
                    IF k >= i /\ k < s.len THEN @[k + 1] ELSE @[k]]]]

\* The arrays some header still points to: the headers in the map, then
\* those in the goroutines' locals.
LiveIds(m, fr) ==
    ({m[n].arr : n \in DOMAIN m} \cup {fr[t].ar.arr : t \in Tid}) \ {0}

\* An array's address is seen only through the headers that share it. The
\* arrays are kept numbered in the order in which the headers (the map's by
\* namespace, then the goroutines') first point to them, and an array no
\* header points to is collected.
RefOrder(m, fr) ==
    [k \in 1 .. (Cardinality(Namespaces) + Cardinality(Tid)) |->
        IF k <= Cardinality(Namespaces)
        THEN LET ns == NsOrder[k] IN IF ns \in DOMAIN m THEN m[ns].arr ELSE 0
        ELSE fr[k - Cardinality(Namespaces)].ar.arr]

\* The new number of each array in use, 0 for the others.
Renumbering(refs) ==
    [a \in 0 .. Cardinality(ArrIds) |->
        IF a # 0 /\ \E j \in DOMAIN refs : refs[j] = a
        THEN Cardinality({refs[k] : k \in { j \in DOMAIN refs :
                              \A i \in 1 .. j - 1 : refs[i] # a }} \ {0})
        ELSE 0]

Renumbered(m, fr, h, ren) ==
    [m |-> [n \in DOMAIN m |-> [m[n] EXCEPT !.arr = ren[@]]],
     fr |-> [t \in Tid |-> [fr[t] EXCEPT !.ar.arr = ren[@]]],
     h |-> [id \in ArrIds |->
               IF \E a \in ArrIds : ren[a] = id
               THEN h[CHOOSE a \in ArrIds : ren[a] = id]
               ELSE <<>>]]

Normalize(m, fr, h) ==
    CHOOSE n \in {Renumbered(m, fr, h, ren) : ren \in {Renumbering(RefOrder(m, fr))}} : TRUE

\* ------------------------------------------------------------------ maps
\* m[k] of a Go map: the zero value when the key is absent.
Lookup(m, k, zero) == IF k \in DOMAIN m THEN m[k] ELSE zero

MapSet(m, k, v) == [x \in DOMAIN m \cup {k} |-> IF x = k THEN v ELSE m[x]]

\* The key is left in the map.
MapDelete_Kept(m, k) == m

MapDelete(m, k) == [x \in DOMAIN m \ {k} |-> m[x]]

EmptyMap == [x \in {} |-> ""]

\* --------------------------------------------------------------- frames
NoEvent == "-"

Frame0 ==
    [op |-> "", ip |-> "", role |-> "", ns |-> "", re |-> "",
     ar |-> NilSlice, i |-> 0, ev |-> NoEvent, ret |-> <<>>, seen |-> {},
     old |-> <<>>]

Idle(t) == pc[t] = "idle"

\* ----------------------------------------------------------- sync.RWMutex
CanLock == mutex.w = 0 /\ mutex.r = {}
CanRLock == mutex.w = 0
Locked(t) == [mutex EXCEPT !.w = t]
Unlocked == [mutex EXCEPT !.w = 0]
RLocked(t) == [mutex EXCEPT !.r = @ \cup {t}]
RUnlocked(t) == [mutex EXCEPT !.r = @ \ {t}]

\* ------------------------------------------------ unsynchronized accesses
\* Where a goroutine is about to write each map (it holds the write lock).
RolesByIPWriters == {"AddRoleToIP_write", "DeleteIP_role"}
NamespaceByIPWriters == {"AddNamespaceToIP_write", "DeleteIP_ns"}
RolesRegexpWriters == {"AddRoleToNamespace_write", "RemoveRoleFromNamespace_write", "DeleteNamespace_delete"}

\* A map read made without the mutex while another goroutine is at a write of
\* the same map is a data race: the read returns a stored value, or the
\* runtime detects it and throws "concurrent map read and map write".
RaceOutcomes(writers) ==
    IF \E u \in Tid : pc[u] \in writers THEN {"read", "fatal"} ELSE {"read"}

\* The process is gone, and its volatile state with it.
Crash ==
    /\ fatal' = TRUE
    /\ mutex' = [w |-> 0, r |-> {}]
    /\ rolesByIP' = EmptyMap
    /\ namespaceByIP' = EmptyMap
    /\ rolesRegexpByNamespace' = [x \in {} |-> NilSlice]
    /\ heap' = [id \in ArrIds |-> <<>>]
    /\ pc' = [t \in Tid |-> "dead"]
    /\ frame' = [t \in Tid |-> Frame0]
    /\ recorded' = [ip \in IPs |-> ""]
    /\ roleEvent' = [ip \in IPs |-> NoEvent]
    /\ granted' = [ns \in Namespaces |-> {}]
    /\ UNCHANGED config

\* ----------------------------------------------------------------- NewStore
NewStore(dr, nr) ==
    /\ defaultRole = dr
    /\ namespaceRestriction = nr
    /\ mutex = [w |-> 0, r |-> {}]
    /\ rolesByIP = EmptyMap
    /\ rolesRegexpByNamespace = [x \in {} |-> NilSlice]
    /\ namespaceByIP = EmptyMap
    /\ heap = [id \in ArrIds |-> <<>>]
    /\ pc = [t \in Tid |-> "idle"]
    /\ frame = [t \in Tid |-> Frame0]
    /\ fatal = FALSE
    /\ recorded = [ip \in IPs |-> ""]
    /\ roleEvent = [ip \in IPs |-> NoEvent]
    /\ granted = [ns \in Namespaces |-> {}]

Init == \E dr \in DefaultRoles, nr \in BOOLEAN : NewStore(dr, nr)

\* ---------------------------------------------------------------- Get
\* The fallback to the default role left out.
GetResult_NoFallback(m, dr, ip) ==
    IF ip \in DOMAIN m THEN <<m[ip], "nil">> ELSE <<"", "NotFound">>

\* Lines 30-37: the stored role, else the default role, else an error.
GetResult(m, dr, ip) ==
    IF ip \in DOMAIN m THEN <<m[ip], "nil">>
    ELSE IF dr # "" THEN <<dr, "nil">>
    ELSE <<"", "NotFound">>

Get_RLock(t, ip) ==
    /\ Idle(t)
    /\ CanRLock
    /\ mutex' = RLocked(t)
    /\ pc' = [pc EXCEPT ![t] = "Get_body"]
    /\ frame' = [frame EXCEPT ![t] = [Frame0 EXCEPT !.op = "Get", !.ip = ip]]
    /\ UNCHANGED <<config, rolesByIP, namespaceByIP, rolesRegexpByNamespace, heap, fatal, history>>

Get_Body(t) ==
    /\ pc[t] = "Get_body"
    /\ frame' = [frame EXCEPT ![t].ret = GetResult(rolesByIP, defaultRole, frame[t].ip)]
    /\ pc' = [pc EXCEPT ![t] = "Get_runlock"]
    /\ UNCHANGED <<config, mutex, rolesByIP, namespaceByIP, rolesRegexpByNamespace, heap, fatal, history>>

\* The deferred RUnlock, then the return.
Get_RUnlock(t) ==
    /\ pc[t] = "Get_runlock"
    /\ mutex' = RUnlocked(t)
    /\ pc' = [pc EXCEPT ![t] = "idle"]
    /\ UNCHANGED <<config, rolesByIP, namespaceByIP, rolesRegexpByNamespace, heap, frame, fatal, history>>

\* ---------------------------------------------------------- AddRoleToIP
\* `ev` is the namespace of the pod event being handled, NoEvent for a
\* direct call.
AddRoleToIP_Enter(t, ip, role, ev) ==
    /\ CanLock
    /\ mutex' = Locked(t)
    /\ pc' = [pc EXCEPT ![t] = "AddRoleToIP_write"]
    /\ frame' = [frame EXCEPT ![t] =
                    [Frame0 EXCEPT !.op = "AddRoleToIP", !.ip = ip, !.role = role, !.ev = ev]]
    /\ UNCHANGED <<config, rolesByIP, namespaceByIP, rolesRegexpByNamespace, heap, fatal, history>>

AddRoleToIP_Lock(t, ip, role) ==
    /\ Idle(t)
    /\ AddRoleToIP_Enter(t, ip, role, NoEvent)

\* A role already stored for the IP is kept.
AddRoleToIP_StoreIfAbsent(m, ip, role) == IF ip \in DOMAIN m THEN m ELSE MapSet(m, ip, role)

\* Line 42.
AddRoleToIP_Store(m, ip, role) == MapSet(m, ip, role)

AddRoleToIP_Write(t) ==
    /\ pc[t] = "AddRoleToIP_write"
    /\ rolesByIP' = AddRoleToIP_Store(rolesByIP, frame[t].ip, frame[t].role)
    /\ roleEvent' = [roleEvent EXCEPT ![frame[t].ip] = frame[t].ev]
    /\ pc' = [pc EXCEPT ![t] = "AddRoleToIP_unlock"]
    /\ UNCHANGED <<config, mutex, namespaceByIP, rolesRegexpByNamespace, heap, frame, fatal, recorded, granted>>

AddRoleToIP_Unlock(t) ==
    /\ pc[t] = "AddRoleToIP_unlock"
    /\ mutex' = Unlocked
    /\ recorded' = [recorded EXCEPT ![frame[t].ip] = frame[t].role]
    /\ frame' = [frame EXCEPT ![t] = IF frame[t].ev = NoEvent THEN Frame0 ELSE @]
    /\ pc' = [pc EXCEPT ![t] = IF frame[t].ev = NoEvent THEN "idle" ELSE "OnAdd_namespace"]
    /\ UNCHANGED <<config, rolesByIP, namespaceByIP, rolesRegexpByNamespace, heap, fatal, roleEvent, granted>>

\* ------------------------------------------------------ AddNamespaceToIP
AddNamespaceToIP_Enter(t, ip, ns) ==
    /\ CanLock
    /\ mutex' = Locked(t)
    /\ pc' = [pc EXCEPT ![t] = "AddNamespaceToIP_write"]
    /\ frame' = [frame EXCEPT ![t] =
                    [Frame0 EXCEPT !.op = "AddNamespaceToIP", !.ip = ip, !.ns = ns]]
    /\ UNCHANGED <<config, rolesByIP, namespaceByIP, rolesRegexpByNamespace, heap, fatal, history>>

AddNamespaceToIP_Lock(t, ip, ns) ==
    /\ Idle(t)
    /\ AddNamespaceToIP_Enter(t, ip, ns)

AddNamespaceToIP_Write(t) ==
    /\ pc[t] = "AddNamespaceToIP_write"
    /\ namespaceByIP' = MapSet(namespaceByIP, frame[t].ip, frame[t].ns)
    /\ pc' = [pc EXCEPT ![t] = "AddNamespaceToIP_unlock"]
    /\ UNCHANGED <<config, mutex, rolesByIP, rolesRegexpByNamespace, heap, frame, fatal, history>>

AddNamespaceToIP_Unlock(t) ==
    /\ pc[t] = "AddNamespaceToIP_unlock"
    /\ mutex' = Unlocked
    /\ frame' = [frame EXCEPT ![t] = Frame0]
    /\ pc' = [pc EXCEPT ![t] = "idle"]
    /\ UNCHANGED <<config, rolesByIP, namespaceByIP, rolesRegexpByNamespace, heap, fatal, history>>

\* -------------------------------------------------------------- DeleteIP
DeleteIP_Lock(t, ip) ==
    /\ Idle(t)
    /\ CanLock
    /\ mutex' = Locked(t)
    /\ pc' = [pc EXCEPT ![t] = "DeleteIP_role"]
    /\ frame' = [frame EXCEPT ![t] = [Frame0 EXCEPT !.op = "DeleteIP", !.ip = ip]]
    /\ UNCHANGED <<config, rolesByIP, namespaceByIP, rolesRegexpByNamespace, heap, fatal, history>>

\* Line 56.
DeleteIP_Role(t) ==
    /\ pc[t] = "DeleteIP_role"
    /\ rolesByIP' = MapDelete(rolesByIP, frame[t].ip)
    /\ roleEvent' = [roleEvent EXCEPT ![frame[t].ip] = NoEvent]
    /\ pc' = [pc EXCEPT ![t] = "DeleteIP_ns"]
    /\ UNCHANGED <<config, mutex, namespaceByIP, rolesRegexpByNamespace, heap, frame, fatal, recorded, granted>>

\* The namespace of the IP is left in place.
DeleteIP_KeepNamespace(m, ip) == m

\* Line 57.
DeleteIP_DropNamespace(m, ip) == MapDelete(m, ip)

DeleteIP_Ns(t) ==
    /\ pc[t] = "DeleteIP_ns"
    /\ namespaceByIP' = DeleteIP_DropNamespace(namespaceByIP, frame[t].ip)
    /\ pc' = [pc EXCEPT ![t] = "DeleteIP_unlock"]
    /\ UNCHANGED <<config, mutex, rolesByIP, rolesRegexpByNamespace, heap, frame, fatal, history>>

DeleteIP_Unlock(t) ==
    /\ pc[t] = "DeleteIP_unlock"
    /\ mutex' = Unlocked
    /\ recorded' = [recorded EXCEPT ![frame[t].ip] = ""]
    /\ frame' = [frame EXCEPT ![t] = Frame0]
    /\ pc' = [pc EXCEPT ![t] = "idle"]
    /\ UNCHANGED <<config, rolesByIP, namespaceByIP, rolesRegexpByNamespace, heap, fatal, roleEvent, granted>>

\* The namespace map, the locals and the arrays after a statement that
\* changed which arrays are in use.
Commit(m, fr, h) ==
    \E n \in {Normalize(m, fr, h)} :
    /\ rolesRegexpByNamespace' = n.m
    /\ frame' = n.fr
    /\ heap' = n.h

\* --------------------------------------------------- AddRoleToNamespace
\* Lines 64-66: the ARN of the regexp, and the namespace's slice, read
\* without the mutex.
AddRoleToNamespace_Read(t, ns, raw) ==
    /\ Idle(t)
    /\ Lookup(rolesRegexpByNamespace, ns, NilSlice).len < MaxLen
    /\ \E o \in RaceOutcomes(RolesRegexpWriters) :
          IF o = "fatal" THEN Crash
          ELSE LET ar == Lookup(rolesRegexpByNamespace, ns, NilSlice) IN
               /\ frame' = [frame EXCEPT ![t] =
                              [Frame0 EXCEPT !.op = "AddRoleToNamespace", !.ns = ns,
                                             !.role = raw, !.re = RoleARN(raw),
                                             !.ar = ar, !.i = 1]]
               /\ pc' = [pc EXCEPT ![t] = IF ar.len = 0 THEN "AddRoleToNamespace_compile"
                                          ELSE "AddRoleToNamespace_scan"]
               /\ UNCHANGED <<config, mutex, rolesByIP, namespaceByIP,
                              rolesRegexpByNamespace, heap, fatal, history>>

\* The scan never finds the regexp.
SameRegexp_Never(h, ar, i, re) == FALSE

\* Line 73: is ar[i] the regexp being added?
SameRegexp(h, ar, i, re) == Elem(h, ar, i) = re

\* Lines 72-77, one turn of the loop.
AddRoleToNamespace_Scan(t) ==
    /\ pc[t] = "AddRoleToNamespace_scan"
    /\ LET f == frame[t] IN
       IF SameRegexp(heap, f.ar, f.i, f.re)
       THEN /\ pc' = [pc EXCEPT ![t] = "AddRoleToNamespace_lock"]
            /\ UNCHANGED frame
       ELSE IF f.i = f.ar.len
       THEN /\ pc' = [pc EXCEPT ![t] = "AddRoleToNamespace_compile"]
            /\ UNCHANGED frame
       ELSE /\ frame' = [frame EXCEPT ![t].i = @ + 1]
            /\ UNCHANGED pc
    /\ UNCHANGED <<config, mutex, rolesByIP, namespaceByIP, rolesRegexpByNamespace, heap, fatal, history>>

\* The return of line 82 left out: after a failed compilation the call goes
\* on to line 86 with the slice it read.
AddRoleToNamespace_Compile_NoReturn(t) ==
    /\ pc[t] = "AddRoleToNamespace_compile"
    /\ LET f == frame[t] IN
       IF ~Compile(f.re)
       THEN /\ UNCHANGED <<rolesRegexpByNamespace, frame, heap>>
            /\ pc' = [pc EXCEPT ![t] = "AddRoleToNamespace_lock"]
       ELSE LET r == SliceAppend(heap, f.ar, f.re, LiveIds(rolesRegexpByNamespace, frame)) IN
            /\ Commit(rolesRegexpByNamespace, [frame EXCEPT ![t].ar = r.s], r.h)
            /\ pc' = [pc EXCEPT ![t] = "AddRoleToNamespace_lock"]
    /\ UNCHANGED <<config, mutex, rolesByIP, namespaceByIP, fatal, history>>

\* Lines 78-85: c is true. A regexp that does not compile ends the call,
\* which leaves only the name of what it dropped behind; one that does is
\* appended to the local slice.
AddRoleToNamespace_Compile(t) ==
    /\ pc[t] = "AddRoleToNamespace_compile"
    /\ LET f == frame[t] IN
       IF ~Compile(f.re)
       THEN /\ Commit(rolesRegexpByNamespace,
                      [frame EXCEPT ![t] = [Frame0 EXCEPT !.op = "AddRoleToNamespace",
                                                          !.re = f.re]],
                      heap)
            /\ pc' = [pc EXCEPT ![t] = "idle"]
       ELSE LET r == SliceAppend(heap, f.ar, f.re, LiveIds(rolesRegexpByNamespace, frame)) IN
            /\ Commit(rolesRegexpByNamespace, [frame EXCEPT ![t].ar = r.s], r.h)
            /\ pc' = [pc EXCEPT ![t] = "AddRoleToNamespace_lock"]
    /\ UNCHANGED <<config, mutex, rolesByIP, namespaceByIP, fatal, history>>

AddRoleToNamespace_Lock(t) ==
    /\ pc[t] = "AddRoleToNamespace_lock"
    /\ CanLock
    /\ mutex' = Locked(t)
    /\ pc' = [pc EXCEPT ![t] = "AddRoleToNamespace_write"]
    /\ UNCHANGED <<config, rolesByIP, namespaceByIP, rolesRegexpByNamespace, heap, frame, fatal, history>>

\* Line 87.
AddRoleToNamespace_Write(t) ==
    /\ pc[t] = "AddRoleToNamespace_write"
    /\ Commit(MapSet(rolesRegexpByNamespace, frame[t].ns, frame[t].ar), frame, heap)
    /\ pc' = [pc EXCEPT ![t] = "AddRoleToNamespace_unlock"]
    /\ UNCHANGED <<config, mutex, rolesByIP, namespaceByIP, fatal, history>>

AddRoleToNamespace_Unlock(t) ==
    /\ pc[t] = "AddRoleToNamespace_unlock"
    /\ mutex' = Unlocked
    /\ Commit(rolesRegexpByNamespace, [frame EXCEPT ![t] = Frame0], heap)
    /\ pc' = [pc EXCEPT ![t] = "idle"]
    /\ granted' = [granted EXCEPT ![frame[t].ns] = @ \cup {frame[t].re}]
    /\ UNCHANGED <<config, rolesByIP, namespaceByIP, fatal, recorded, roleEvent>>

\* ---------------------------------------------- RemoveRoleFromNamespace
\* Lines 94-96.
RemoveRoleFromNamespace_Read(t, ns, raw) ==
    /\ Idle(t)
    /\ \E o \in RaceOutcomes(RolesRegexpWriters) :
          IF o = "fatal" THEN Crash
          ELSE LET ar == Lookup(rolesRegexpByNamespace, ns, NilSlice) IN
               /\ frame' = [frame EXCEPT ![t] =
                              [Frame0 EXCEPT !.op = "RemoveRoleFromNamespace", !.ns = ns,
                                             !.role = raw, !.re = RoleARN(raw),
                                             !.ar = ar, !.i = 1,
                                             !.old = Items(heap, ar)]]
               /\ pc' = [pc EXCEPT ![t] = IF ar.len = 0 THEN "RemoveRoleFromNamespace_lock"
                                          ELSE "RemoveRoleFromNamespace_scan"]
               /\ UNCHANGED <<config, mutex, rolesByIP, namespaceByIP,
                              rolesRegexpByNamespace, heap, fatal, history>>

\* Lines 97-102, one turn of the loop; the removal writes the shared array.
RemoveRoleFromNamespace_Scan(t) ==
    /\ pc[t] = "RemoveRoleFromNamespace_scan"
    /\ LET f == frame[t] IN
       IF SameRegexp(heap, f.ar, f.i, f.re)
       THEN LET r == SliceRemove(heap, f.ar, f.i) IN
            /\ frame' = [frame EXCEPT ![t].ar = r.s]
            /\ heap' = r.h
            /\ pc' = [pc EXCEPT ![t] = "RemoveRoleFromNamespace_lock"]
       ELSE IF f.i = f.ar.len
       THEN /\ pc' = [pc EXCEPT ![t] = "RemoveRoleFromNamespace_lock"]
            /\ UNCHANGED <<frame, heap>>
       ELSE /\ frame' = [frame EXCEPT ![t].i = @ + 1]
            /\ UNCHANGED <<pc, heap>>
    /\ UNCHANGED <<config, mutex, rolesByIP, namespaceByIP, rolesRegexpByNamespace, fatal, history>>

RemoveRoleFromNamespace_Lock(t) ==
    /\ pc[t] = "RemoveRoleFromNamespace_lock"
    /\ CanLock
    /\ mutex' = Locked(t)
    /\ pc' = [pc EXCEPT ![t] = "RemoveRoleFromNamespace_write"]
    /\ UNCHANGED <<config, rolesByIP, namespaceByIP, rolesRegexpByNamespace, heap, frame, fatal, history>>

\* Line 104.
RemoveRoleFromNamespace_Write(t) ==
    /\ pc[t] = "RemoveRoleFromNamespace_write"
    /\ Commit(MapSet(rolesRegexpByNamespace, frame[t].ns, frame[t].ar), frame, heap)
    /\ pc' = [pc EXCEPT ![t] = "RemoveRoleFromNamespace_unlock"]
    /\ UNCHANGED <<config, mutex, rolesByIP, namespaceByIP, fatal, history>>

RemoveRoleFromNamespace_Unlock(t) ==
    /\ pc[t] = "RemoveRoleFromNamespace_unlock"
    /\ mutex' = Unlocked
    /\ Commit(rolesRegexpByNamespace, [frame EXCEPT ![t] = Frame0], heap)
    /\ pc' = [pc EXCEPT ![t] = "idle"]
    /\ granted' = [granted EXCEPT ![frame[t].ns] = @ \ {frame[t].re}]
    /\ UNCHANGED <<config, rolesByIP, namespaceByIP, fatal, recorded, roleEvent>>

\* ------------------------------------------------------- DeleteNamespace
DeleteNamespace_Lock(t, ns) ==
    /\ Idle(t)
    /\ CanLock
    /\ mutex' = Locked(t)
    /\ pc' = [pc EXCEPT ![t] = "DeleteNamespace_delete"]
    /\ frame' = [frame EXCEPT ![t] = [Frame0 EXCEPT !.op = "DeleteNamespace", !.ns = ns]]
    /\ UNCHANGED <<config, rolesByIP, namespaceByIP, rolesRegexpByNamespace, heap, fatal, history>>

\* Line 111.
DeleteNamespace_Delete(t) ==
    /\ pc[t] = "DeleteNamespace_delete"
    /\ Commit(MapDelete(rolesRegexpByNamespace, frame[t].ns), frame, heap)
    /\ pc' = [pc EXCEPT ![t] = "DeleteNamespace_unlock"]
    /\ UNCHANGED <<config, mutex, rolesByIP, namespaceByIP, fatal, history>>

DeleteNamespace_Unlock(t) ==
    /\ pc[t] = "DeleteNamespace_unlock"
    /\ mutex' = Unlocked
    /\ frame' = [frame EXCEPT ![t] = Frame0]
    /\ pc' = [pc EXCEPT ![t] = "idle"]
    /\ granted' = [granted EXCEPT ![frame[t].ns] = {}]
    /\ UNCHANGED <<config, rolesByIP, namespaceByIP, rolesRegexpByNamespace, heap, fatal, recorded, roleEvent>>

\* --------------------------------------------- CheckNamespaceRestriction
\* The default role compared as it was configured, not as its ARN.
EarlyOut_RawDefault(nr, dr, role) == ~nr \/ role = dr

\* The asked role put in ARN form before the comparison.
EarlyOut_RoleNormalized(nr, dr, role) == ~nr \/ RoleARN(role) = RoleARN(dr)

\* The restriction flag not consulted.
EarlyOut_FlagIgnored(nr, dr, role) == role = RoleARN(dr)

\* Lines 134-141: no restriction in place, or the role is the default role.
EarlyOut(nr, dr, role) == ~nr \/ role = RoleARN(dr)

\* Lines 131-141. The namespace is read without the mutex.
CheckNamespaceRestriction_ReadNs(t, role, ip) ==
    /\ Idle(t)
    /\ \E o \in RaceOutcomes(NamespaceByIPWriters) :
          IF o = "fatal" THEN Crash
          ELSE LET ns == Lookup(namespaceByIP, ip, "")
                   f == [Frame0 EXCEPT !.op = "CheckNamespaceRestriction",
                                       !.role = role, !.ip = ip, !.ns = ns]
               IN
               /\ IF EarlyOut(namespaceRestriction, defaultRole, role)
                  THEN /\ frame' = [frame EXCEPT ![t] = [f EXCEPT !.ret = <<TRUE, ns>>]]
                       /\ UNCHANGED pc
                  ELSE /\ frame' = [frame EXCEPT ![t] = f]
                       /\ pc' = [pc EXCEPT ![t] = "checkRoleForNamespace_read"]
               /\ UNCHANGED <<config, mutex, rolesByIP, namespaceByIP,
                              rolesRegexpByNamespace, heap, fatal, history>>

\* Line 118, read without the mutex; an empty slice ends at lines 125-126.
checkRoleForNamespace_Read(t) ==
    /\ pc[t] = "checkRoleForNamespace_read"
    /\ \E o \in RaceOutcomes(RolesRegexpWriters) :
          IF o = "fatal" THEN Crash
          ELSE LET ar == Lookup(rolesRegexpByNamespace, frame[t].ns, NilSlice) IN
               /\ IF ar.len = 0
                  THEN /\ frame' = [frame EXCEPT ![t].ret = <<FALSE, frame[t].ns>>]
                       /\ pc' = [pc EXCEPT ![t] = "idle"]
                  ELSE /\ frame' = [frame EXCEPT ![t].ar = ar, ![t].i = 1]
                       /\ pc' = [pc EXCEPT ![t] = "checkRoleForNamespace_scan"]
               /\ UNCHANGED <<config, mutex, rolesByIP, namespaceByIP,
                              rolesRegexpByNamespace, heap, fatal, history>>

\* Line 120.
RegexpMatches(h, ar, i, role) == MatchString(Elem(h, ar, i), role)

\* Lines 119-126, one turn of the loop.
checkRoleForNamespace_Scan(t) ==
    /\ pc[t] = "checkRoleForNamespace_scan"
    /\ LET f == frame[t] IN
       IF RegexpMatches(heap, f.ar, f.i, f.role)
       THEN /\ Commit(rolesRegexpByNamespace,
                      [frame EXCEPT ![t].ret = <<TRUE, f.ns>>, ![t].ar = NilSlice, ![t].i = 0],
                      heap)
            /\ pc' = [pc EXCEPT ![t] = "idle"]
       ELSE IF f.i = f.ar.len
       THEN /\ Commit(rolesRegexpByNamespace,
                      [frame EXCEPT ![t].ret = <<FALSE, f.ns>>, ![t].ar = NilSlice, ![t].i = 0],
                      heap)
            /\ pc' = [pc EXCEPT ![t] = "idle"]
       ELSE /\ frame' = [frame EXCEPT ![t].i = @ + 1]
            /\ UNCHANGED <<pc, rolesRegexpByNamespace, heap>>
    /\ UNCHANGED <<config, mutex, rolesByIP, namespaceByIP, fatal, history>>

\* ----------------------------------------------------------------- dumps
\* Lines 147-149 and 166-168 return the map itself: the caller holds the
\* store's own map, named here by the field.
DumpRolesByIP(t) ==
    /\ Idle(t)
    /\ frame' = [frame EXCEPT ![t] =
                    [Frame0 EXCEPT !.op = "DumpRolesByIP", !.ret = <<[ref |-> "rolesByIP"]>>]]
    /\ UNCHANGED <<config, mutex, rolesByIP, namespaceByIP, rolesRegexpByNamespace, heap, pc, fatal, history>>

DumpNamespaceByIP(t) ==
    /\ Idle(t)
    /\ frame' = [frame EXCEPT ![t] =
                    [Frame0 EXCEPT !.op = "DumpNamespaceByIP", !.ret = <<[ref |-> "namespaceByIP"]>>]]
    /\ UNCHANGED <<config, mutex, rolesByIP, namespaceByIP, rolesRegexpByNamespace, heap, pc, fatal, history>>

\* What a holder of a dumped map sees in it now.
Deref(r) == IF r.ref = "rolesByIP" THEN rolesByIP ELSE namespaceByIP

\* Line 153.
DumpRolesByNamespace_Make(t) ==
    /\ Idle(t)
    /\ frame' = [frame EXCEPT ![t] =
                    [Frame0 EXCEPT !.op = "DumpRolesByNamespace",
                                   !.ret = <<[x \in {} |-> <<>>]>>]]
    /\ pc' = [pc EXCEPT ![t] = "DumpRolesByNamespace_range"]
    /\ UNCHANGED <<config, mutex, rolesByIP, namespaceByIP, rolesRegexpByNamespace, heap, fatal, history>>

\* Lines 156-159: make([]string, n) is n empty strings, and the n sources
\* are appended after them.
ListOfRoles(h, ar) == [k \in 1 .. ar.len |-> ""] \o Items(h, ar)

\* Lines 155-161, one key of the range over the map, in the map's order;
\* line 162 when no key is left. Nothing here holds the mutex.
DumpRolesByNamespace_Range(t) ==
    /\ pc[t] = "DumpRolesByNamespace_range"
    /\ \E o \in RaceOutcomes(RolesRegexpWriters) :
          IF o = "fatal" THEN Crash
          ELSE LET left == DOMAIN rolesRegexpByNamespace \ frame[t].seen IN
               /\ IF left = {}
                  THEN /\ frame' = [frame EXCEPT ![t].seen = {}]
                       /\ pc' = [pc EXCEPT ![t] = "idle"]
                  ELSE /\ \E ns \in left :
                            frame' = [frame EXCEPT
                                ![t].seen = @ \cup {ns},
                                ![t].ret = <<MapSet(@[1], ns,
                                      ListOfRoles(heap, rolesRegexpByNamespace[ns]))>>]
                       /\ UNCHANGED pc
               /\ UNCHANGED <<config, mutex, rolesByIP, namespaceByIP,
                              rolesRegexpByNamespace, heap, fatal, history>>

\* ------------------------------------------------------- the pod handler
\* A pod added or updated: its role, then its namespace, in two calls.
OnAdd(t, ip, role, ns) ==
    /\ Idle(t)
    /\ AddRoleToIP_Enter(t, ip, role, ns)

OnAdd_Namespace(t) ==
    /\ pc[t] = "OnAdd_namespace"
    /\ AddNamespaceToIP_Enter(t, frame[t].ip, frame[t].ev)

\* A pod deleted.
OnDelete(t, ip) == DeleteIP_Lock(t, ip)

\* ------------------------------------------------------------ next state
\* The statements after the first of each method, for goroutine t.
AddressSteps(t) ==
    \/ Get_Body(t)
    \/ Get_RUnlock(t)
    \/ AddRoleToIP_Write(t)
    \/ AddRoleToIP_Unlock(t)
    \/ AddNamespaceToIP_Write(t)
    \/ AddNamespaceToIP_Unlock(t)
    \/ DeleteIP_Role(t)
    \/ DeleteIP_Ns(t)
    \/ DeleteIP_Unlock(t)

PolicySteps(t) ==
    \/ AddRoleToNamespace_Scan(t)
    \/ AddRoleToNamespace_Compile(t)
    \/ AddRoleToNamespace_Lock(t)
    \/ AddRoleToNamespace_Write(t)
    \/ AddRoleToNamespace_Unlock(t)
    \/ RemoveRoleFromNamespace_Scan(t)
    \/ RemoveRoleFromNamespace_Lock(t)
    \/ RemoveRoleFromNamespace_Write(t)
    \/ RemoveRoleFromNamespace_Unlock(t)
    \/ DeleteNamespace_Delete(t)
    \/ DeleteNamespace_Unlock(t)

CheckSteps(t) ==
    \/ checkRoleForNamespace_Read(t)
    \/ checkRoleForNamespace_Scan(t)

\* Every goroutine's later statements.
Steps(t) == AddressSteps(t) \/ PolicySteps(t) \/ CheckSteps(t)

\* One goroutine calling every method of the store, one call at a time, on
\* two pods and two namespaces whose annotations name one role regexp.
Next ==
    \/ \E ip \in IPs : Get_RLock(1, ip)
    \/ \E ip \in IPs, role \in PodRoles : AddRoleToIP_Lock(1, ip, role)
    \/ \E ip \in IPs, ns \in Namespaces : AddNamespaceToIP_Lock(1, ip, ns)
    \/ \E ip \in IPs : DeleteIP_Lock(1, ip)
    \/ \E ns \in Namespaces, raw \in {"a", "("} : AddRoleToNamespace_Read(1, ns, raw)
    \/ \E ns \in Namespaces, raw \in {"a"} : RemoveRoleFromNamespace_Read(1, ns, raw)
    \/ \E ns \in Namespaces : DeleteNamespace_Lock(1, ns)
    \/ \E role \in {"arn:a", "arn:d"}, ip \in IPs : CheckNamespaceRestriction_ReadNs(1, role, ip)
    \/ DumpRolesByIP(1)
    \/ DumpNamespaceByIP(1)
    \/ DumpRolesByNamespace_Make(1)
    \/ DumpRolesByNamespace_Range(1)
    \/ Steps(1)

Spec == Init /\ [][Next]_vars

\* One goroutine working on the namespaces' role regexps and asking for
\* roles of one pod, whose namespace changes.
NextPolicy ==
    \/ \E ns \in Namespaces : AddNamespaceToIP_Lock(1, "ip1", ns)
    \/ DeleteIP_Lock(1, "ip1")
    \/ \E ns \in Namespaces, raw \in RawPatterns : AddRoleToNamespace_Read(1, ns, raw)
    \/ \E ns \in Namespaces, raw \in RawPatterns : RemoveRoleFromNamespace_Read(1, ns, raw)
    \/ \E ns \in Namespaces : DeleteNamespace_Lock(1, ns)
    \/ \E role \in AskRoles : CheckNamespaceRestriction_ReadNs(1, role, "ip1")
    \/ DumpRolesByNamespace_Make(1)
    \/ DumpRolesByNamespace_Range(1)
    \/ AddNamespaceToIP_Write(1)
    \/ AddNamespaceToIP_Unlock(1)
    \/ DeleteIP_Role(1)
    \/ DeleteIP_Ns(1)
    \/ DeleteIP_Unlock(1)
    \/ PolicySteps(1)
    \/ CheckSteps(1)

SpecPolicy == Init /\ [][NextPolicy]_vars

\* The pod events of the model: what a pod's annotation and namespace are.
PodEvents == {<<"arn:a", "ns1">>, <<"arn:b", "ns2">>}

\* The store with namespace restrictions in place and no default role.
InitRestricted == NewStore("", TRUE)

\* Goroutine 1 is the pod handler, 2 serves credential requests of the pod,
\* 3 serves the debug endpoint.
NextPods ==
    \/ \E e \in PodEvents : OnAdd(1, "ip1", e[1], e[2])
    \/ OnAdd_Namespace(1)
    \/ OnDelete(1, "ip1")
    \/ AddRoleToIP_Write(1)
    \/ AddRoleToIP_Unlock(1)
    \/ AddNamespaceToIP_Write(1)
    \/ AddNamespaceToIP_Unlock(1)
    \/ DeleteIP_Role(1)
    \/ DeleteIP_Ns(1)
    \/ DeleteIP_Unlock(1)
    \/ Get_RLock(2, "ip1")
    \/ Get_Body(2)
    \/ Get_RUnlock(2)
    \/ \E role \in PodRoles : CheckNamespaceRestriction_ReadNs(2, role, "ip1")
    \/ checkRoleForNamespace_Read(2)
    \/ DumpRolesByIP(3)
    \/ DumpNamespaceByIP(3)

SpecPods == InitRestricted /\ [][NextPods]_vars

\* The store once the pod ip1 of namespace ns1 has been added.
InitAdmin ==
    /\ defaultRole = ""
    /\ namespaceRestriction = TRUE
    /\ mutex = [w |-> 0, r |-> {}]
    /\ rolesByIP = MapSet(EmptyMap, "ip1", "arn:a")
    /\ namespaceByIP = MapSet(EmptyMap, "ip1", "ns1")
    /\ rolesRegexpByNamespace = [x \in {} |-> NilSlice]
    /\ heap = [id \in ArrIds |-> <<>>]
    /\ pc = [t \in Tid |-> "idle"]
    /\ frame = [t \in Tid |-> Frame0]
    /\ fatal = FALSE
    /\ recorded = [ip \in IPs |-> IF ip = "ip1" THEN "arn:a" ELSE ""]
    /\ roleEvent = [ip \in IPs |-> IF ip = "ip1" THEN "ns1" ELSE NoEvent]
    /\ granted = [ns \in Namespaces |-> {}]

\* A call of the namespace handler on the annotation of ns1.
AdminCalls(t) ==
    \/ \E raw \in {"a", ".*"} : AddRoleToNamespace_Read(t, "ns1", raw)
    \/ \E raw \in {"a", ".*"} : RemoveRoleFromNamespace_Read(t, "ns1", raw)
    \/ DeleteNamespace_Lock(t, "ns1")

\* Goroutines 1 and 2 both handle namespace events.
NextAdmin == \E t \in {1, 2} : AdminCalls(t) \/ PolicySteps(t)

SpecAdmin == InitAdmin /\ [][NextAdmin]_vars

\* Goroutines 1 and 2 both handle namespace events that only add regexps.
NextGrant ==
    \E t \in {1, 2} :
        \/ \E raw \in {"a", ".*", "("} : AddRoleToNamespace_Read(t, "ns1", raw)
        \/ AddRoleToNamespace_Scan(t)
        \/ AddRoleToNamespace_Compile(t)
        \/ AddRoleToNamespace_Lock(t)
        \/ AddRoleToNamespace_Write(t)
        \/ AddRoleToNamespace_Unlock(t)

SpecGrant == InitAdmin /\ [][NextGrant]_vars

\* One goroutine handling the annotation of ns1, which names up to three
\* regexps, and credential requests of the pod of ns1; ns2 names one regexp.
NextRevoke ==
    \/ \E raw \in {"a", "b", ".*"} : AddRoleToNamespace_Read(1, "ns1", raw)
    \/ AddRoleToNamespace_Read(1, "ns2", "a")
    \/ \E raw \in {"a", "b", ".*"} : RemoveRoleFromNamespace_Read(1, "ns1", raw)
    \/ \E role \in PodRoles : CheckNamespaceRestriction_ReadNs(1, role, "ip1")
    \/ AddRoleToNamespace_Scan(1)
    \/ AddRoleToNamespace_Compile(1)
    \/ AddRoleToNamespace_Lock(1)
    \/ AddRoleToNamespace_Write(1)
    \/ AddRoleToNamespace_Unlock(1)
    \/ RemoveRoleFromNamespace_Scan(1)
    \/ RemoveRoleFromNamespace_Lock(1)
    \/ RemoveRoleFromNamespace_Write(1)
    \/ RemoveRoleFromNamespace_Unlock(1)
    \/ CheckSteps(1)

SpecRevoke == InitAdmin /\ [][NextRevoke]_vars

\* The scheduler runs every goroutine that can run, and a goroutine waiting
\* in Lock gets the mutex: sync.Mutex hands it to the longest waiter.
FairGrant ==
    \A t \in {1, 2} :
        /\ WF_vars(AddRoleToNamespace_Scan(t))
        /\ WF_vars(AddRoleToNamespace_Compile(t))
        /\ SF_vars(AddRoleToNamespace_Lock(t))
        /\ WF_vars(AddRoleToNamespace_Write(t))
        /\ WF_vars(AddRoleToNamespace_Unlock(t))

SpecGrantFair == InitAdmin /\ [][NextGrant]_vars /\ FairGrant

\* ================================================================ claims
\* The namespace recorded for an IP, "" when there is none.
TenantOf(ip) == IF ip \in DOMAIN namespaceByIP THEN namespaceByIP[ip] ELSE ""

\* The regexps stored for a namespace, in order; none for an unknown one.
Collection(ns) ==
    IF ns \in DOMAIN rolesRegexpByNamespace
    THEN Items(heap, rolesRegexpByNamespace[ns])
    ELSE <<>>

SomePatternMatches(ns, role) ==
    \E k \in DOMAIN Collection(ns) : MatchString(Collection(ns)[k], role)

\* Goroutine t has returned from a call of `op` and has made no call since.
Returned(t, op) == pc[t] = "idle" /\ frame[t].op = op

\* C1: with restrictions in place, a role that is not the ARN of the default
\* role and that no regexp of the IP's namespace matches is refused, and the
\* namespace of the IP ("" when it has none) is returned with the refusal.
C1_RefusedWithoutMatch ==
    ( /\ Returned(1, "CheckNamespaceRestriction")
      /\ namespaceRestriction
      /\ frame[1].role # RoleARN(defaultRole)
      /\ ~SomePatternMatches(TenantOf(frame[1].ip), frame[1].role) )
    => frame[1].ret = <<FALSE, TenantOf(frame[1].ip)>>

\* A refusal for a pod whose namespace has regexps, none matching, while the
\* other namespace has one that matches.
C1_Witness ==
    /\ Returned(1, "CheckNamespaceRestriction")
    /\ namespaceRestriction
    /\ frame[1].role = "arn:b"
    /\ TenantOf("ip1") = "ns1"
    /\ Collection("ns1") # <<>>
    /\ ~SomePatternMatches("ns1", "arn:b")
    /\ SomePatternMatches("ns2", "arn:b")
    /\ frame[1].ret = <<FALSE, "ns1">>

\* C2: with restrictions in place, the ARN of the default role is allowed for
\* every IP whatever the regexps of its namespace, and the namespace of the
\* IP ("" when it has none) is returned.
C2_DefaultRoleAllowed ==
    ( /\ Returned(1, "CheckNamespaceRestriction")
      /\ namespaceRestriction
      /\ frame[1].role = RoleARN(defaultRole) )
    => frame[1].ret = <<TRUE, TenantOf(frame[1].ip)>>

\* The default role "d", asked for as "arn:d", allowed in a namespace whose
\* regexps do not match it.
C2_Witness ==
    /\ Returned(1, "CheckNamespaceRestriction")
    /\ namespaceRestriction
    /\ defaultRole = "d"
    /\ frame[1].role = "arn:d"
    /\ TenantOf("ip1") = "ns1"
    /\ Collection("ns1") # <<>>
    /\ ~SomePatternMatches("ns1", "arn:d")
    /\ frame[1].ret = <<TRUE, "ns1">>

\* C3: without restrictions every role is allowed for every IP, and the
\* namespace of the IP ("" when it has none) is returned.
C3_AllowedWithoutRestriction ==
    ( /\ Returned(1, "CheckNamespaceRestriction")
      /\ ~namespaceRestriction )
    => frame[1].ret = <<TRUE, TenantOf(frame[1].ip)>>

\* A role that is not the default and that no regexp of the namespace
\* matches, allowed because restrictions are off.
C3_Witness ==
    /\ Returned(1, "CheckNamespaceRestriction")
    /\ ~namespaceRestriction
    /\ frame[1].role # RoleARN(defaultRole)
    /\ TenantOf("ip1") = "ns2"
    /\ Collection("ns2") # <<>>
    /\ ~SomePatternMatches("ns2", frame[1].role)
    /\ frame[1].ret = <<TRUE, "ns2">>

\* What Get answers for an IP with no stored role.
Fallback == IF defaultRole # "" THEN <<defaultRole, "nil">> ELSE <<"", "NotFound">>

GetPcs == {"Get_body", "Get_runlock"}

\* C4: Get returns the role stored for the IP; for an IP with no stored role
\* it returns the default role without error when one is configured and
\* fails with NotFound when none is; and no step of Get changes a map.
C4_Resolve ==
    [][ (pc[1] \in GetPcs \/ pc'[1] \in GetPcs) =>
          /\ rolesByIP' = rolesByIP
          /\ namespaceByIP' = namespaceByIP
          /\ rolesRegexpByNamespace' = rolesRegexpByNamespace
          /\ heap' = heap
          /\ pc'[1] = "idle" =>
                LET ip == frame'[1].ip IN
                CASE ip \in DOMAIN rolesByIP' -> frame'[1].ret = <<rolesByIP'[ip], "nil">>
                  [] ip \notin DOMAIN rolesByIP' /\ defaultRole # "" ->
                        frame'[1].ret = <<defaultRole, "nil">>
                  [] OTHER -> frame'[1].ret = <<"", "NotFound">>
      ]_vars

\* NotFound for an IP never recorded, with no default role, while the other
\* IP has a role.
C4_Witness ==
    /\ Returned(1, "Get")
    /\ frame[1].ip = "ip1"
    /\ defaultRole = ""
    /\ recorded["ip1"] = ""
    /\ "ip2" \in DOMAIN rolesByIP
    /\ frame[1].ret = <<"", "NotFound">>

\* C5: Get returns the role of the last AddRoleToIP for the IP that no
\* DeleteIP of the IP has followed, whatever else was called in between, and
\* answers as for an unknown IP when there is none.
C5_LastWriteWins ==
    Returned(1, "Get") =>
        frame[1].ret = IF recorded[frame[1].ip] # ""
                       THEN <<recorded[frame[1].ip], "nil">>
                       ELSE Fallback

\* The role of ip1 returned while ip2 holds another role, ip1 has a
\* namespace and that namespace has regexps.
C5_Witness ==
    /\ Returned(1, "Get")
    /\ frame[1].ip = "ip1"
    /\ recorded["ip1"] = "arn:b"
    /\ recorded["ip2"] = "arn:a"
    /\ frame[1].ret = <<"arn:b", "nil">>
    /\ TenantOf("ip1") # ""
    /\ Collection(TenantOf("ip1")) # <<>>

DeleteIPPcs == {"DeleteIP_role", "DeleteIP_ns", "DeleteIP_unlock"}

\* C6: DeleteIP removes the IP from rolesByIP and namespaceByIP inside one
\* section of the write lock and leaves a map that does not hold the IP as it
\* is; when it returns, Get answers for the IP as for an unknown one and the
\* namespace looked up for it is ""; the entries of the other IPs and the
\* regexps of the namespaces are never changed by it.
C6_Forget ==
    [][ (pc[1] \in DeleteIPPcs \/ pc'[1] \in DeleteIPPcs) =>
          LET ip == IF pc'[1] \in DeleteIPPcs THEN frame'[1].ip ELSE frame[1].ip IN
          /\ \A o \in IPs \ {ip} :
                /\ Lookup(rolesByIP', o, "none") = Lookup(rolesByIP, o, "none")
                /\ Lookup(namespaceByIP', o, "none") = Lookup(namespaceByIP, o, "none")
          /\ rolesRegexpByNamespace' = rolesRegexpByNamespace
          /\ heap' = heap
          /\ ip \notin DOMAIN rolesByIP => rolesByIP' = rolesByIP
          /\ ip \notin DOMAIN namespaceByIP => namespaceByIP' = namespaceByIP
          /\ pc'[1] \in DeleteIPPcs => mutex'.w = 1
          /\ pc'[1] = "idle" =>
                /\ ip \notin DOMAIN rolesByIP'
                /\ ip \notin DOMAIN namespaceByIP'
                /\ GetResult(rolesByIP', defaultRole, ip) = Fallback
                /\ Lookup(namespaceByIP', ip, "") = ""
                /\ mutex'.w = 0
      ]_vars

\* DeleteIP of a recorded ip1 about to return: ip1 is in neither map, ip2 is
\* in both and a namespace has regexps.
C6_Witness ==
    /\ pc[1] = "DeleteIP_unlock"
    /\ frame[1].ip = "ip1"
    /\ recorded["ip1"] # ""
    /\ "ip1" \notin DOMAIN rolesByIP
    /\ "ip1" \notin DOMAIN namespaceByIP
    /\ "ip2" \in DOMAIN rolesByIP
    /\ "ip2" \in DOMAIN namespaceByIP
    /\ \E ns \in Namespaces : Collection(ns) # <<>>

\* C7: whenever a reader holds the read lock, the role and the namespace
\* stored for an IP come from the same pod event: the namespace is never
\* that of an earlier event than the one the role is from.
C7_NoTornWrite ==
    \A ip \in IPs :
        ( /\ mutex.r # {}
          /\ ip \in DOMAIN rolesByIP
          /\ ip \in DOMAIN namespaceByIP
          /\ roleEvent[ip] # NoEvent )
        => namespaceByIP[ip] = roleEvent[ip]

\* Where a goroutine is inside a method that reads a map.
ReadPcs == {"Get_body", "Get_runlock", "checkRoleForNamespace_read",
            "checkRoleForNamespace_scan", "DumpRolesByNamespace_range"}

\* C8: no goroutine is inside Get, CheckNamespaceRestriction or a dump while
\* another one holds the write lock, and the runtime never finds a map read
\* while the map is written.
C8_ReadsUnderSharedLock ==
    /\ ~fatal
    /\ \A t \in Tid : pc[t] \in ReadPcs => mutex.w = 0

\* C9: once the calls of AddRoleToNamespace have returned, every regexp that
\* one of them added is stored for the namespace.
C9_NoLostUpdate ==
    (\A t \in Tid : pc[t] = "idle") =>
        \A ns \in Namespaces :
            granted[ns] \subseteq {Collection(ns)[k] : k \in DOMAIN Collection(ns)}

\* The regexps stored for a namespace are pairwise different.
NoDuplicate(ns) ==
    \A i, j \in DOMAIN Collection(ns) : i # j => Collection(ns)[i] # Collection(ns)[j]

\* C10: whenever no call of AddRoleToNamespace, RemoveRoleFromNamespace or
\* DeleteNamespace is in progress, no namespace has the same regexp stored
\* twice.
C10_NoDuplicatePattern ==
    (\A t \in Tid : pc[t] = "idle") => \A ns \in Namespaces : NoDuplicate(ns)

\* The regexps of a namespace in a given map and heap.
CollectionIn(m, h, ns) == IF ns \in DOMAIN m THEN Items(h, m[ns]) ELSE <<>>

\* How many entries of a sequence equal x.
Count(c, x) == Cardinality({k \in DOMAIN c : c[k] = x})

AddPcs == {"AddRoleToNamespace_scan", "AddRoleToNamespace_compile", "AddRoleToNamespace_lock",
           "AddRoleToNamespace_write", "AddRoleToNamespace_unlock"}

\* C11: no step of AddRoleToNamespace changes the regexps of a namespace
\* that already holds the ARN form of its argument, nor those of another
\* namespace; when the namespace does not hold it, the only change a step
\* makes is to append it at the end; and when the call returns after the
\* regexp compiled, the namespace holds it exactly once.
C11_GrantIdempotent ==
    [][ (pc[1] \in AddPcs \/ pc'[1] \in AddPcs) =>
          LET f == IF pc'[1] \in AddPcs THEN frame'[1] ELSE frame[1]
              before == CollectionIn(rolesRegexpByNamespace, heap, f.ns)
              after == CollectionIn(rolesRegexpByNamespace', heap', f.ns)
          IN
          /\ \A o \in Namespaces \ {f.ns} :
                CollectionIn(rolesRegexpByNamespace', heap', o)
                    = CollectionIn(rolesRegexpByNamespace, heap, o)
          /\ Count(before, f.re) > 0 => after = before
          /\ Count(before, f.re) = 0 => after \in {before, Append(before, f.re)}
          /\ (pc'[1] = "idle" /\ Compile(f.re)) => Count(after, f.re) = 1
      ]_vars

\* A second AddRoleToNamespace of arn:a, given as "a", about to return: the
\* regexp is still first of two.
C11_Witness ==
    /\ pc[1] = "AddRoleToNamespace_unlock"
    /\ frame[1].role = "a"
    /\ frame[1].re \in granted[frame[1].ns]
    /\ Collection(frame[1].ns) = <<"arn:a", "arn:.*">>

\* A sequence without the first of its entries equal to x.
RemoveFirst(c, x) ==
    LET i == CHOOSE k \in DOMAIN c : c[k] = x /\ \A j \in 1 .. (k - 1) : c[j] # x
    IN SubSeq(c, 1, i - 1) \o SubSeq(c, i + 1, Len(c))

RemovePcs == {"RemoveRoleFromNamespace_scan", "RemoveRoleFromNamespace_lock",
              "RemoveRoleFromNamespace_write", "RemoveRoleFromNamespace_unlock"}

\* C12: when RemoveRoleFromNamespace returns and the namespace held the ARN
\* form of its argument when the call began, the namespace holds what it held
\* then without the first entry equal to it, the others in their order; no
\* step of the call changes the regexps of another namespace; and afterwards
\* a role that is not the default role is allowed only if a regexp added and
\* not removed since matches it.
C12_RevokeRemovesFirst ==
    /\ [][ (pc[1] \in RemovePcs \/ pc'[1] \in RemovePcs) =>
             LET f == IF pc'[1] \in RemovePcs THEN frame'[1] ELSE frame[1] IN
             /\ \A o \in Namespaces \ {f.ns} :
                   CollectionIn(rolesRegexpByNamespace', heap', o)
                       = CollectionIn(rolesRegexpByNamespace, heap, o)
             /\ (pc'[1] = "idle" /\ Count(f.old, f.re) > 0) =>
                   /\ CollectionIn(rolesRegexpByNamespace', heap', f.ns)
                          = RemoveFirst(f.old, f.re)
                   /\ Len(CollectionIn(rolesRegexpByNamespace', heap', f.ns))
                          = Len(f.old) - 1
         ]_vars
    /\ []( ( /\ Returned(1, "CheckNamespaceRestriction")
             /\ frame[1].ret[1]
             /\ ~EarlyOut(namespaceRestriction, defaultRole, frame[1].role) )
           => \E re \in granted[frame[1].ns] : MatchString(re, frame[1].role) )

\* arn:b removed from between two others, the call about to return; ns2
\* has a regexp.
C12_Witness ==
    /\ pc[1] = "RemoveRoleFromNamespace_unlock"
    /\ frame[1].re = "arn:b"
    /\ frame[1].old = <<"arn:a", "arn:b", "arn:.*">>
    /\ Collection("ns1") = <<"arn:a", "arn:.*">>
    /\ Collection("ns2") = <<"arn:a">>

\* C13: no step of a RemoveRoleFromNamespace whose namespace did not hold
\* the ARN form of its argument when the call began changes rolesByIP,
\* namespaceByIP, the namespaces that rolesRegexpByNamespace has a key for,
\* or the regexps of any namespace.
C13_RevokeAbsentNoOp ==
    [][ (pc[1] \in RemovePcs \/ pc'[1] \in RemovePcs) =>
          LET f == IF pc'[1] \in RemovePcs THEN frame'[1] ELSE frame[1] IN
          Count(f.old, f.re) = 0 =>
             /\ rolesByIP' = rolesByIP
             /\ namespaceByIP' = namespaceByIP
             /\ DOMAIN rolesRegexpByNamespace' = DOMAIN rolesRegexpByNamespace
             /\ \A ns \in Namespaces :
                   CollectionIn(rolesRegexpByNamespace', heap', ns)
                       = CollectionIn(rolesRegexpByNamespace, heap, ns)
      ]_vars

\* What CheckNamespaceRestriction answers for a role and an IP when nothing
\* else runs, from the given maps.
Permitted(nsByIP, m, h, role, ip) ==
    \/ EarlyOut(namespaceRestriction, defaultRole, role)
    \/ \E k \in DOMAIN CollectionIn(m, h, Lookup(nsByIP, ip, "")) :
          MatchString(CollectionIn(m, h, Lookup(nsByIP, ip, ""))[k], role)

\* C14: an AddRoleToNamespace whose regexp does not compile never takes the
\* mutex and returns at the compilation; none of its steps changes rolesByIP,
\* namespaceByIP, the keys of rolesRegexpByNamespace, the regexps of a
\* namespace, or what CheckNamespaceRestriction answers for any role and IP;
\* and the runtime reports no error.
C14_MalformedDropped ==
    [][ (pc[1] \in AddPcs \/ pc'[1] \in AddPcs) =>
          LET f == IF pc'[1] \in AddPcs THEN frame'[1] ELSE frame[1] IN
          ~Compile(f.re) =>
             /\ pc'[1] \in {"AddRoleToNamespace_scan", "AddRoleToNamespace_compile", "idle"}
             /\ pc[1] = "AddRoleToNamespace_compile" => pc'[1] = "idle"
             /\ mutex = [w |-> 0, r |-> {}] /\ mutex' = mutex
             /\ ~fatal'
             /\ rolesByIP' = rolesByIP
             /\ namespaceByIP' = namespaceByIP
             /\ DOMAIN rolesRegexpByNamespace' = DOMAIN rolesRegexpByNamespace
             /\ \A ns \in Namespaces :
                   CollectionIn(rolesRegexpByNamespace', heap', ns)
                       = CollectionIn(rolesRegexpByNamespace, heap, ns)
             /\ \A role \in AskRoles, ip \in IPs :
                   Permitted(namespaceByIP', rolesRegexpByNamespace', heap', role, ip)
                       = Permitted(namespaceByIP, rolesRegexpByNamespace, heap, role, ip)
      ]_vars

\* The call has returned having dropped "arn:(", with the mutex free and
\* two regexps stored for the namespace of ip1.
C14_Witness ==
    /\ Returned(1, "AddRoleToNamespace")
    /\ frame[1].re = "arn:("
    /\ mutex = [w |-> 0, r |-> {}]
    /\ Len(Collection(TenantOf("ip1"))) = 2

DropPcs == {"DeleteNamespace_delete", "DeleteNamespace_unlock"}

\* C15: DeleteNamespace holds the write lock until it returns and changes
\* neither rolesByIP nor namespaceByIP nor the key or the regexps of another
\* namespace, and nothing at all when the namespace has no key; when it
\* returns the namespace has no key and CheckNamespaceRestriction refuses
\* every role but the default one for every IP of the namespace; and a role
\* that is not the default role is allowed only if a regexp added since the
\* last DeleteNamespace of the IP's namespace matches it.
C15_DropTenant ==
    /\ [][ (pc[1] \in DropPcs \/ pc'[1] \in DropPcs) =>
             LET f == IF pc'[1] \in DropPcs THEN frame'[1] ELSE frame[1] IN
             /\ rolesByIP' = rolesByIP
             /\ namespaceByIP' = namespaceByIP
             /\ \A o \in Namespaces \ {f.ns} :
                   /\ o \in DOMAIN rolesRegexpByNamespace' <=> o \in DOMAIN rolesRegexpByNamespace
                   /\ CollectionIn(rolesRegexpByNamespace', heap', o)
                          = CollectionIn(rolesRegexpByNamespace, heap, o)
             /\ f.ns \notin DOMAIN rolesRegexpByNamespace =>
                   rolesRegexpByNamespace' = rolesRegexpByNamespace /\ heap' = heap
             /\ pc'[1] \in DropPcs => mutex'.w = 1
             /\ pc'[1] = "idle" =>
                   /\ mutex'.w = 0
                   /\ f.ns \notin DOMAIN rolesRegexpByNamespace'
                   /\ \A role \in AskRoles, ip \in IPs :
                         ( /\ Lookup(namespaceByIP', ip, "") = f.ns
                           /\ ~EarlyOut(namespaceRestriction, defaultRole, role) )
                         => ~Permitted(namespaceByIP', rolesRegexpByNamespace', heap', role, ip)
         ]_vars
    /\ []( ( /\ Returned(1, "CheckNamespaceRestriction")
             /\ frame[1].ret[1]
             /\ ~EarlyOut(namespaceRestriction, defaultRole, frame[1].role) )
           => \E re \in granted[frame[1].ns] : MatchString(re, frame[1].role) )

\* DeleteNamespace of ns1, the namespace of ip1, about to return: ns1 had
\* regexps and has no key now, ns2 keeps its regexps.
C15_Witness ==
    /\ pc[1] = "DeleteNamespace_unlock"
    /\ frame[1].ns = "ns1"
    /\ granted["ns1"] # {}
    /\ "ns1" \notin DOMAIN rolesRegexpByNamespace
    /\ TenantOf("ip1") = "ns1"
    /\ Len(Collection("ns2")) = 2

\* What a dumped map shows to its holder, given the store's maps.
DerefIn(rb, nb, r) == IF r.ref = "rolesByIP" THEN rb ELSE nb

\* C16: as long as a goroutine holds what DumpRolesByIP or DumpNamespaceByIP
\* returned to it, what it sees in it does not change.
C16_DumpIsCopy ==
    [][ \A t \in Tid :
          ( /\ pc[t] = "idle"
            /\ frame[t].op \in {"DumpRolesByIP", "DumpNamespaceByIP"}
            /\ frame'[t] = frame[t] )
          => DerefIn(rolesByIP', namespaceByIP', frame[t].ret[1])
                = DerefIn(rolesByIP, namespaceByIP, frame[t].ret[1])
      ]_vars

\* C17: what DumpRolesByNamespace returned has the keys of
\* rolesRegexpByNamespace and, for each, the list of the sources of the
\* namespace's regexps in their order, and nothing more.
C17_DumpRendersPatterns ==
    Returned(1, "DumpRolesByNamespace") =>
        /\ DOMAIN frame[1].ret[1] = DOMAIN rolesRegexpByNamespace
        /\ \A ns \in DOMAIN frame[1].ret[1] : frame[1].ret[1][ns] = Collection(ns)

\* Every call a goroutine has begun returns, unless the runtime has ended
\* the process.
CompletesUnlessFatal ==
    \A t \in {1, 2} : (pc[t] # "idle") ~> (pc[t] = "idle" \/ fatal)

\* The mutex is held by a goroutine exactly where the code is between Lock
\* and Unlock, and by no reader.
LockMatchesCode ==
    /\ mutex.r = {}
    /\ \A t \in Tid :
          mutex.w = t <=> pc[t] \in {"AddRoleToNamespace_write", "AddRoleToNamespace_unlock"}

\* C18: under fair scheduling every call a goroutine has begun returns,
\* whatever the other goroutines do.
C18_OperationsComplete ==
    \A t \in {1, 2} : (pc[t] # "idle") ~> (pc[t] = "idle")

\* C19: once every call has returned, each regexp stored for a namespace was
\* added by a call that took the write lock after the last DeleteNamespace of
\* the namespace and after the last RemoveRoleFromNamespace of that regexp.
C19_RemovalNotUndone ==
    (\A t \in Tid : pc[t] = "idle") =>
        \A ns \in Namespaces :
            \A k \in DOMAIN Collection(ns) : Collection(ns)[k] \in granted[ns]

\* C20: with restrictions in place and a default role configured,
\* CheckNamespaceRestriction allows, for an IP with no stored role, the role
\* that Get returns for that IP.
C20_FallbackExempt ==
    ( /\ Returned(1, "CheckNamespaceRestriction")
      /\ namespaceRestriction
      /\ defaultRole # ""
      /\ frame[1].ip \notin DOMAIN rolesByIP
      /\ <<frame[1].role, "nil">> = GetResult(rolesByIP, defaultRole, frame[1].ip) )
    => frame[1].ret[1]

====
